---- MODULE Spec2Model ----
(***************************************************************************)
(* A state-machine model of game.py (Infinite Cat Jumper): the Player,     *)
(* Platform and Item objects, the main loop of main() taken one statement  *)
(* group at a time, the modal screens, and the two persistence files.      *)
(*                                                                         *)
(* Numbers.  Positions and velocities are Python floats whose values are   *)
(* all multiples of 0.01 (GRAV 0.5, EASYGRAV 0.2 and their 0.6 fractions); *)
(* the model keeps them as integers in hundredths of a pixel (PX units per *)
(* pixel), so 15 px/frame is 1500 and 0.12 px/frame is 12.  Times are in   *)
(* milliseconds as pygame.time.get_ticks() returns them.  Angles are in    *)
(* milliradians and cos/sin in thousandths.                                *)
(***************************************************************************)
EXTENDS Integers, Sequences, FiniteSets, TLC

PX == 100

WIDTH  == 800 * PX
HEIGHT == 600 * PX

GRAV     == 50
EASYGRAV == 20
JUMP     == 1500
DJUMP    == 1200

level_goals == <<10, 15, 25>>

\* level_scores holds None until a level's score is recorded.
None == -1

PlayerW == 50 * PX
PlayerH == 50 * PX
PlatH   == 20 * PX
ItemW   == 30 * PX
ItemH   == 30 * PX

INVUL_FRAMES == 30
DOUBLE_MS    == 5000
MOVE_SPEED   == 500

\* One frame of clock.tick(60), in milliseconds.
FRAME_MS == 17

\* pygame.time.wait(5000) of the game-over and the scoreboard display.
DISPLAY_MS == 5000

VARIABLES
    pc,            \* position in main(): a statement group of the loop, or a modal screen
    lvl,           \* main's lvl
    player,        \* the Player object
    plats,         \* main's plats: a sequence of Platform records
    items,         \* main's items: a sequence of Item records
    level_scores,  \* the global level_scores
    now,           \* pygame.time.get_ticks()
    start_time,    \* main's start_time
    total_time,    \* main's total_time, in ms
    held,          \* pygame.key.get_pressed(): [left, right]
    nextId,        \* identity of the next Platform object created
    budget,        \* what is left of the bounded inputs and random events of this run
    initials,      \* victory's entry buffer
    highscore,     \* content of highscore.txt
    board,         \* content of scoreboard.txt: a sequence of lines
    arg,           \* the arguments of the call a pure-function specification applies
    hist           \* history of the run, recorded for the properties; no action reads it

vars == <<pc, lvl, player, plats, items, level_scores, now, start_time, total_time,
          held, nextId, budget, initials, highscore, board, arg, hist>>

----------------------------------------------------------------------------
(* Player *)

NewPlayer(x, y) ==
    [x |-> x, y |-> y, vy |-> 0, jumps |-> 0, score |-> 0, lives |-> 3,
     initial |-> TRUE, alive |-> TRUE, double_end |-> 0, invul |-> 0,
     hit_recently |-> FALSE, start_x |-> x, start_y |-> y]

\* hit, were the respawn branch taken whatever the lives left.
hit_always_respawns(p) ==
    [p EXCEPT !.lives = p.lives - 1, !.invul = INVUL_FRAMES, !.x = p.start_x,
              !.y = p.start_y, !.vy = 0, !.jumps = 0, !.hit_recently = TRUE]

\* hit, were the respawn to start the score over.
hit_resets_score(p) ==
    LET q == [p EXCEPT !.lives = p.lives - 1]
    IN  IF q.lives <= 0
        THEN [q EXCEPT !.alive = FALSE]
        ELSE [q EXCEPT !.invul = INVUL_FRAMES, !.x = q.start_x, !.y = q.start_y,
                       !.vy = 0, !.jumps = 0, !.hit_recently = TRUE, !.score = 0]

\* hit, were it to cost two lives.
hit_takes_two(p) ==
    LET q == [p EXCEPT !.lives = p.lives - 2]
    IN  IF q.lives <= 0
        THEN [q EXCEPT !.alive = FALSE]
        ELSE [q EXCEPT !.invul = INVUL_FRAMES, !.x = q.start_x, !.y = q.start_y,
                       !.vy = 0, !.jumps = 0, !.hit_recently = TRUE]

\* hit, were the respawn to leave the fall speed and the jump count alone.
hit_keeps_speed(p) ==
    LET q == [p EXCEPT !.lives = p.lives - 1]
    IN  IF q.lives <= 0
        THEN [q EXCEPT !.alive = FALSE]
        ELSE [q EXCEPT !.invul = INVUL_FRAMES, !.x = q.start_x, !.y = q.start_y,
                       !.hit_recently = TRUE]

hit(p) ==
    LET q == [p EXCEPT !.lives = p.lives - 1]
    IN  IF q.lives <= 0
        THEN [q EXCEPT !.alive = FALSE]
        ELSE [q EXCEPT !.invul = INVUL_FRAMES, !.x = q.start_x, !.y = q.start_y,
                       !.vy = 0, !.jumps = 0, !.hit_recently = TRUE]

gravity(p) == IF p.initial /\ p.jumps = 0 THEN EASYGRAV ELSE GRAV

integrate(p) ==
    LET g   == gravity(p)
        vy1 == IF p.vy < 0 THEN p.vy + (g * 6) \div 10 ELSE p.vy + g
    IN  [p EXCEPT !.vy = vy1, !.y = p.y + vy1]

tick_invul(p) == IF p.invul > 0 THEN [p EXCEPT !.invul = p.invul - 1] ELSE p

hazard_overlap(p, pl) ==
    /\ p.x + PlayerW > pl.x /\ p.x < pl.x + pl.w
    /\ p.y + PlayerH > pl.y /\ p.y < pl.y + pl.h
    /\ pl.hazard

collision(p, ps) ==
    p.invul = 0 /\ \E i \in 1..Len(ps) : hazard_overlap(p, ps[i])

resolve_hazard(p, ps) ==
    IF collision(p, ps)
    THEN (IF ~p.hit_recently THEN hit(p) ELSE p)
    ELSE [p EXCEPT !.hit_recently = FALSE]

\* lands_on, were the band under the platform's top half as deep.
lands_on_thin(p, pl) ==
    /\ ~pl.hazard
    /\ p.y + PlayerH >= pl.y /\ p.y + PlayerH <= pl.y + pl.h \div 2
    /\ p.x + PlayerW > pl.x /\ p.x < pl.x + pl.w

lands_on(p, pl) ==
    /\ ~pl.hazard
    /\ p.y + PlayerH >= pl.y /\ p.y + PlayerH <= pl.y + pl.h
    /\ p.x + PlayerW > pl.x /\ p.x < pl.x + pl.w

\* can_land, were a rising player to land as well.
can_land_rising(p, ps) ==
    p.alive /\ \E i \in 1..Len(ps) : lands_on(p, ps[i])

can_land(p, ps) ==
    p.alive /\ p.vy >= 0 /\ \E i \in 1..Len(ps) : lands_on(p, ps[i])

land_index(p, ps) ==
    CHOOSE i \in 1..Len(ps) :
        lands_on(p, ps[i]) /\ \A j \in 1..(i - 1) : ~lands_on(p, ps[j])

\* landing, were the fall speed kept.
landing_keeps_vy(p, ps) ==
    IF can_land(p, ps)
    THEN [p EXCEPT !.y = ps[land_index(p, ps)].y - PlayerH,
                   !.jumps = 0, !.initial = FALSE]
    ELSE p

landing(p, ps) ==
    IF can_land(p, ps)
    THEN [p EXCEPT !.y = ps[land_index(p, ps)].y - PlayerH, !.vy = 0,
                   !.jumps = 0, !.initial = FALSE]
    ELSE p

clamp(p) ==
    LET q == IF p.x < 0 THEN [p EXCEPT !.x = 0] ELSE p
    IN  IF q.x + PlayerW > WIDTH THEN [q EXCEPT !.x = WIDTH - PlayerW] ELSE q

update(p, ps) ==
    clamp(landing(resolve_hazard(tick_invul(integrate(p)), ps), ps))

\* jump, were there no limit of two.
jump_unbounded(p) ==
    IF p.jumps = 0
    THEN [p EXCEPT !.vy = -JUMP, !.jumps = 1, !.initial = FALSE]
    ELSE [p EXCEPT !.vy = -DJUMP, !.jumps = p.jumps + 1]

jump(p) ==
    IF p.jumps = 0
    THEN [p EXCEPT !.vy = -JUMP, !.jumps = 1, !.initial = FALSE]
    ELSE IF p.jumps = 1
         THEN [p EXCEPT !.vy = -DJUMP, !.jumps = 2]
         ELSE p

move_left(p)  == [p EXCEPT !.x = p.x - MOVE_SPEED]
move_right(p) == [p EXCEPT !.x = p.x + MOVE_SPEED]

----------------------------------------------------------------------------
(* Platform and Item *)

Platform(id, x, y, w) ==
    [id |-> id, x |-> x, y |-> y, w |-> w, h |-> PlatH, hazard |-> FALSE,
     slide |-> 0, vx |-> 0, vy |-> 0,
     radius |-> 0, angle |-> 0, rot_speed |-> 0, cx |-> 0, cy |-> 0]

\* Item(x, y, plat): an item bound to the platform with identity plat keeps
\* its offset from it.
Item(x, y, pl) ==
    [plat |-> pl.id, ox |-> x - pl.x, oy |-> y - pl.y, special |-> FALSE]

plat_of(it, ps) == CHOOSE i \in 1..Len(ps) : ps[i].id = it.plat

has_plat(it, ps) == \E i \in 1..Len(ps) : ps[i].id = it.plat

get_x(it, ps) == ps[plat_of(it, ps)].x + it.ox
get_y(it, ps) == ps[plat_of(it, ps)].y + it.oy

item_overlap(p, it, ps) ==
    /\ p.x < get_x(it, ps) + ItemW /\ p.x + PlayerW > get_x(it, ps)
    /\ p.y < get_y(it, ps) + ItemH /\ p.y + PlayerH > get_y(it, ps)

\* collect_one, were a special item to extend a running window.
collect_one_extends(p, it, t) ==
    LET e == IF p.double_end > t THEN p.double_end ELSE t
        q == IF it.special THEN [p EXCEPT !.double_end = e + DOUBLE_MS] ELSE p
    IN  IF t < q.double_end
        THEN [q EXCEPT !.score = q.score + 2]
        ELSE [q EXCEPT !.score = q.score + 1]

\* Player.collect's loop body for one item, at time t.
collect_one(p, it, t) ==
    LET q == IF it.special THEN [p EXCEPT !.double_end = t + DOUBLE_MS] ELSE p
    IN  IF t < q.double_end
        THEN [q EXCEPT !.score = q.score + 2]
        ELSE [q EXCEPT !.score = q.score + 1]

\* Player.collect: the loop over a copy of the list, from item i on; the
\* result is the player and the items that are left.
RECURSIVE collect_from(_, _, _, _, _, _)
collect_from(p, its, i, kept, ps, t) ==
    IF i > Len(its)
    THEN [player |-> p, items |-> kept]
    ELSE IF item_overlap(p, its[i], ps)
         THEN collect_from(collect_one(p, its[i], t), its, i + 1, kept, ps, t)
         ELSE collect_from(p, its, i + 1, Append(kept, its[i]), ps, t)

collect(p, its, ps, t) == collect_from(p, its, 1, <<>>, ps, t)

----------------------------------------------------------------------------
(* math.cos and math.sin on milliradians, in thousandths: the cosine series *)
(* to the sixth power on the first quadrant, reflected to the others.       *)

PI_MRAD == 3142

cos_q(a) ==
    LET x2 == (a * a) \div 1000
        x4 == (x2 * x2) \div 1000
        x6 == (x4 * x2) \div 1000
    IN  1000 - x2 \div 2 + x4 \div 24 - x6 \div 720

cos1000(a) ==
    LET r == a % (2 * PI_MRAD)
        s == IF r > PI_MRAD THEN 2 * PI_MRAD - r ELSE r
    IN  IF s > PI_MRAD \div 2 THEN -cos_q(PI_MRAD - s) ELSE cos_q(s)

sin1000(a) == cos1000(a + 3 * (PI_MRAD \div 2) + 2 * PI_MRAD)

----------------------------------------------------------------------------
(* Level generation.  Every random draw of the code is a field of a draw   *)
(* record r; the draw sets further down choose the records.                *)

\* The ranges the code draws a platform and its item from.
ValidPlatDraw(r) ==
    /\ r.w \in {k * PX : k \in 50..120}
    /\ r.x % PX = 0 /\ r.x >= 0 /\ r.x <= WIDTH - r.w
    /\ r.hazard \in BOOLEAN /\ r.spawn \in BOOLEAN /\ r.special \in BOOLEAN
    /\ r.ioff % PX = 0 /\ r.ioff >= 0 /\ r.ioff <= r.w - ItemW
    /\ r.vx \in {-3 * PX, -2 * PX, -PX, PX, 2 * PX, 3 * PX}
    /\ r.vy \in {-3 * PX, -2 * PX, -PX, PX, 2 * PX, 3 * PX}
    /\ r.radius \in {k * PX : k \in 50..150}
    /\ r.angle >= 0 /\ r.angle <= 2 * PI_MRAD
    /\ r.cxo \in {k * PX : k \in -100..100}
    /\ r.rot_speed >= 10 /\ r.rot_speed <= 50

gen_platform(id, y, r) == [Platform(id, r.x, y, r.w) EXCEPT !.hazard = r.hazard]

\* spawn_item: the items it adds (none or one).
spawn_item(pl, r) ==
    IF r.spawn
    THEN <<[Item(pl.x + r.ioff, pl.y - ItemH, pl) EXCEPT !.special = r.special]>>
    ELSE <<>>

\* The circular profile of level 3 (init_game and the incremental generation).
circular(pl, r) ==
    [pl EXCEPT !.radius = r.radius, !.angle = r.angle,
               !.cx = WIDTH \div 2 + r.cxo, !.cy = pl.y, !.rot_speed = r.rot_speed]

\* init_game's while loop: platform number i at height y.
RECURSIVE gen_loop(_, _, _, _, _)
gen_loop(y, i, d, ps, its) ==
    IF y > -HEIGHT
    THEN LET pl == gen_platform(i + 1, y, d.plat[i])
         IN  gen_loop(y - d.spacing, i + 1, d, Append(ps, pl),
                      its \o spawn_item(pl, d.plat[i]))
    ELSE [plats |-> ps, items |-> its]

level_motion(l, ps, d) ==
    [k \in 1..Len(ps) |->
        IF k = 1 THEN ps[k]
        ELSE IF l = 2 THEN [ps[k] EXCEPT !.vx = d.plat[k - 1].vx, !.vy = d.plat[k - 1].vy]
        ELSE IF l = 3 THEN circular(ps[k], d.plat[k - 1])
        ELSE ps[k]]

init_game(l, d) ==
    LET sy         == HEIGHT - 100 * PX
        start_plat == Platform(1, d.sx, sy, d.sw)
        g          == gen_loop(sy - d.gap, 1, d, <<start_plat>>, <<>>)
        player_x   == start_plat.x + (((start_plat.w - PlayerW) \div PX) \div 2) * PX
        player_y   == start_plat.y - PlayerH
    IN  [player |-> NewPlayer(player_x, player_y),
         plats  |-> level_motion(l, g.plats, d),
         items  |-> g.items]

ValidSpacing(l, s) ==
    IF l \in {1, 2} THEN s \in {k * PX : k \in 80..150}
    ELSE s \in {((k * 10) \div 16) * PX : k \in 160..300}

ValidInitDraw(l, d) ==
    /\ d.sw \in {k * PX : k \in 100..200}
    /\ d.sx % PX = 0 /\ d.sx >= 0 /\ d.sx <= WIDTH - d.sw
    /\ d.gap \in {k * PX : k \in 80..150}
    /\ ValidSpacing(l, d.spacing)
    /\ \A i \in 1..Len(d.plat) : ValidPlatDraw(d.plat[i])

----------------------------------------------------------------------------
(* Bounds of the model, and the draws and inputs it enumerates.            *)

MaxFrames  == 76   \* frames of the main loop in one run
InputEvery == 10   \* a key event or a re-roll only every InputEvery-th frame of a level
MaxKeys    == 3    \* UP and L key presses in one run
MaxMoves   == 1    \* changes of the held LEFT/RIGHT keys in one run
MaxRerolls == 1    \* 1%-chance re-rolls of a platform's speed in one run

Min(a, b) == IF a < b THEN a ELSE b
Abs(a)    == IF a < 0 THEN -a ELSE a

\* The draws for the i-th platform generated in level l.  hz: whether the
\* first platform above the start platform comes out hazardous in level 1.
PlatDraw(l, i, hz) ==
    LET w == IF i % 2 = 1 THEN 120 * PX ELSE 60 * PX
    IN  [w       |-> w,
         x       |-> CASE i = 1 -> (IF l = 2 THEN 330 ELSE 340) * PX
                       [] i = 2 -> (IF l = 2 THEN 0 ELSE 100) * PX
                       [] i = 3 -> 300 * PX
                       [] OTHER -> ((i * 130) % 600) * PX,
         hazard  |-> (i = 1 /\ (hz \/ l > 1)) \/ i = 5,
         spawn   |-> i % 2 = 1,
         ioff    |-> (IF i % 2 = 1 THEN 45 ELSE 15) * PX,
         special |-> i = 1,
         vx      |-> CASE i = 1 -> PX [] i = 2 -> -3 * PX [] OTHER -> ((i % 3) + 1) * PX,
         vy      |-> CASE i = 1 -> PX [] i = 2 -> -2 * PX [] OTHER -> -((i % 3) + 1) * PX,
         radius  |-> (50 + 20 * (i % 6)) * PX,
         angle   |-> (i * 785) % (2 * PI_MRAD),
         cxo     |-> (((i * 37) % 201) - 100) * PX,
         rot_speed |-> 10 + ((i * 7) % 41)]

InitDraw(l, hz) ==
    [sw      |-> (IF l = 1 THEN 100 ELSE 200) * PX,
     sx      |-> (IF l = 1 THEN 350 ELSE 300) * PX,
     gap     |-> 80 * PX,
     spacing |-> (IF l = 3 THEN 187 ELSE 150) * PX,
     plat    |-> [i \in 1..8 |-> PlatDraw(l, i, hz)]]

InitDraws(l) ==
    {d \in {InitDraw(l, hz) : hz \in (IF l = 1 THEN BOOLEAN ELSE {TRUE})} :
        ValidInitDraw(l, d)}

\* random.choice([-3, -2, -1, 1, 2, 3]) for the lazily drawn slide of level 1.
SlideDraw(pl) ==
    IF pl.id = 1 THEN 3 * PX ELSE IF pl.id % 2 = 0 THEN -2 * PX ELSE PX

RerollDraws == {-3 * PX, 2 * PX}

\* A re-roll: platform number k of the list gets speed v on axis a ("x", "y"),
\* level 1 having the one axis; k = 0 is the frame without a re-roll.
NoReroll == [k |-> 0, v |-> 0, a |-> "x"]

InputSlot == ((now - start_time) \div FRAME_MS) % InputEvery = 0

Rerolls ==
    {NoReroll} \cup
    (IF budget.rerolls > 0 /\ InputSlot /\ lvl \in {1, 2}
     THEN {[k |-> k, v |-> v, a |-> a] :
              k \in 1..Min(3, Len(plats)), v \in RerollDraws,
              a \in (IF lvl = 1 THEN {"x"} ELSE {"x", "y"})}
     ELSE {})

\* What one run may use: three key presses, or one and a change of the held
\* keys, or one and a re-roll.
Budgets ==
    {[keys |-> MaxKeys, moves |-> 0, rerolls |-> 0],
     [keys |-> 1, moves |-> MaxMoves, rerolls |-> 0],
     [keys |-> 1, moves |-> 0, rerolls |-> MaxRerolls]}

NoKeys == [left |-> FALSE, right |-> FALSE]

KeyEvents ==
    {"none"} \cup
    (IF InputSlot THEN {"QUIT"} ELSE {}) \cup
    (IF InputSlot /\ budget.keys > 0 THEN {"UP", "L"} ELSE {})

HeldChoices ==
    {held} \cup
    (IF InputSlot /\ budget.moves > 0
     THEN {[held EXCEPT !.left = ~held.left], [held EXCEPT !.right = ~held.right]}
     ELSE {})

----------------------------------------------------------------------------
(* The history variable.  event: the KEYDOWN handled in the current frame,   *)
(* and jumps0 the player's jump count when the event loop began.            *)
(* contact: for every hazardous platform that overlapped the player at the  *)
(* collision test of the last Player.update (lines 145-146), the lives that *)
(* Player.update has taken since that overlap began.  rest: the platform    *)
(* the player stood on at the start of frame number since, no key having    *)
(* been pressed or held from then on (0: none); still: since then that      *)
(* platform has kept its height, has stayed under the player as the first   *)
(* safe platform at his feet, and the player has not been hit.              *)

NoContact == [id \in {} |-> 0]

NoHist == [event |-> "none", jumps0 |-> 0, contact |-> NoContact, rest |-> 0, since |-> 0,
           still |-> FALSE, ascents |-> 0, speed |-> 0, lives0 |-> 3]

overlapped(p, ps) ==
    {ps[k].id : k \in {j \in 1..Len(ps) : hazard_overlap(p, ps[j])}}

above(p, pl) == p.x + PlayerW > pl.x /\ p.x < pl.x + pl.w

standing(p, pl) ==
    ~pl.hazard /\ p.alive /\ p.vy = 0 /\ p.y = pl.y - PlayerH /\ above(p, pl)

stood_on(p, ps) ==
    IF \E k \in 1..Len(ps) : standing(p, ps[k])
    THEN ps[CHOOSE k \in 1..Len(ps) :
                standing(p, ps[k]) /\ \A j \in 1..(k - 1) : ~standing(p, ps[j])].id
    ELSE 0

present(id, ps) == \E k \in 1..Len(ps) : ps[k].id = id

index_of(id, ps) == CHOOSE k \in 1..Len(ps) : ps[k].id = id

\* After the event loop: p is the player before it, ev and hl the event and
\* the held keys of this frame.
hist_events(h0, p, ps, ev, hl, t) ==
    LET h == [h0 EXCEPT !.ascents = @ + (IF ev = "UP" /\ p.jumps < 2 THEN 1 ELSE 0),
                        !.lives0 = p.lives]
    IN  IF ev # "none" \/ hl # [left |-> FALSE, right |-> FALSE]
        THEN [h EXCEPT !.event = ev, !.jumps0 = p.jumps, !.rest = 0, !.still = FALSE]
        ELSE IF h.rest = 0
             THEN [h EXCEPT !.event = ev, !.jumps0 = p.jumps, !.rest = stood_on(p, ps),
                            !.since = t, !.still = stood_on(p, ps) # 0]
             ELSE [h EXCEPT !.event = ev, !.jumps0 = p.jumps]

\* After Player.update: p is the player before it, r the player after it.
hist_update(h, p, r, ps) ==
    LET q    == tick_invul(integrate(p))
        ov   == overlapped(q, ps)
        lost == p.lives - r.lives
    IN  [h EXCEPT
            !.speed = q.vy,
            !.contact = [id \in ov |->
                            (IF id \in DOMAIN h.contact THEN h.contact[id] ELSE 0) + lost],
            !.still = /\ h.still /\ lost = 0 /\ present(h.rest, ps)
                      /\ above(q, ps[index_of(h.rest, ps)])
                      /\ \A j \in 1..(index_of(h.rest, ps) - 1) : ~lands_on(q, ps[j])]

\* After the platforms moved from ps to qs.
hist_move(h, ps, qs) ==
    [h EXCEPT !.still = /\ h.still /\ present(h.rest, ps)
                        /\ qs[index_of(h.rest, ps)].y = ps[index_of(h.rest, ps)].y]

----------------------------------------------------------------------------
(* main(): the loop, one statement group per action.                       *)

\* A KEYDOWN event of the event loop.
\* key_down, were the skip key to clear the jump count as well.
key_down_resets(p, ev, l) ==
    CASE ev = "UP" -> jump(p)
      [] ev = "L"  -> [p EXCEPT !.score = level_goals[l], !.y = HEIGHT + PX, !.jumps = 0]
      [] OTHER     -> p

key_down(p, ev, l) ==
    CASE ev = "UP" -> jump(p)
      [] ev = "L"  -> [p EXCEPT !.score = level_goals[l], !.y = HEIGHT + PX]
      [] OTHER     -> p

apply_held(p, h) ==
    LET q == IF h.left THEN move_left(p) ELSE p
    IN  IF h.right THEN move_right(q) ELSE q

record_score(ls, l, p) == [ls EXCEPT ![l] = p.score]

\* Lines 613-634: the event queue and the held keys.
Events ==
    /\ pc = "events"
    /\ now < MaxFrames * FRAME_MS
    /\ \E ev \in KeyEvents \ {"QUIT"}, h \in HeldChoices :
          /\ held' = h
          /\ budget' = [budget EXCEPT
                           !.keys  = @ - (IF ev \in {"UP", "L"} THEN 1 ELSE 0),
                           !.moves = @ - (IF h # held THEN 1 ELSE 0)]
          /\ player' = apply_held(key_down(player, ev, lvl), h)
          /\ hist' = hist_events(hist, player, plats, ev, h, now)
    /\ pc' = "update"
    /\ UNCHANGED <<lvl, plats, items, level_scores, now, start_time, total_time,
                   nextId, initials, highscore, board, arg>>

\* Lines 616-618, 626-627, 791: a QUIT event ends the loop and the program.
Quit ==
    /\ pc = "events"
    /\ now < MaxFrames * FRAME_MS
    /\ "QUIT" \in KeyEvents
    /\ pc' = "exit"
    /\ hist' = [hist EXCEPT !.event = "QUIT"]
    /\ UNCHANGED <<lvl, player, plats, items, level_scores, now, start_time,
                   total_time, held, nextId, budget, initials, highscore, board, arg>>

\* Line 637.
Update ==
    /\ pc = "update"
    /\ player' = update(player, plats)
    /\ hist' = hist_update(hist, player, update(player, plats), plats)
    /\ pc' = "collect"
    /\ UNCHANGED <<lvl, plats, items, level_scores, now, start_time, total_time,
                   held, nextId, budget, initials, highscore, board, arg>>

\* Line 639.
Collect ==
    /\ pc = "collect"
    /\ LET c == collect(player, items, plats, now)
       IN  player' = c.player /\ items' = c.items
    /\ pc' = "fall"
    /\ UNCHANGED <<lvl, plats, level_scores, now, start_time, total_time,
                   held, nextId, budget, initials, highscore, board, arg, hist>>

\* Lines 641-651, were a fall to end the game whatever the lives left.
Fall_ends_game ==
    /\ pc = "fall"
    /\ IF player.y > HEIGHT
       THEN player' = [player EXCEPT !.alive = FALSE] /\ pc' = "game_over"
            /\ level_scores' = record_score(level_scores, lvl, player)
       ELSE player' = player /\ pc' = "dead" /\ UNCHANGED level_scores
    /\ UNCHANGED <<lvl, plats, items, now, start_time, total_time,
                   held, nextId, budget, initials, highscore, board, arg, hist>>

\* Lines 641-651.
Fall ==
    /\ pc = "fall"
    /\ IF player.y > HEIGHT
       THEN IF player.lives > 0
            THEN player' = hit(player) /\ pc' = "dead"
                 /\ UNCHANGED level_scores
            ELSE player' = player /\ pc' = "game_over"
                 /\ level_scores' = record_score(level_scores, lvl, player)
       ELSE player' = player /\ pc' = "dead" /\ UNCHANGED level_scores
    /\ UNCHANGED <<lvl, plats, items, now, start_time, total_time,
                   held, nextId, budget, initials, highscore, board, arg, hist>>

\* Lines 652-658.
Dead ==
    /\ pc = "dead"
    /\ IF ~player.alive
       THEN pc' = "game_over"
            /\ level_scores' = record_score(level_scores, lvl, player)
       ELSE pc' = "goal" /\ UNCHANGED level_scores
    /\ UNCHANGED <<lvl, player, plats, items, now, start_time, total_time,
                   held, nextId, budget, initials, highscore, board, arg, hist>>

\* Lines 660-666, 672-674: the goal test, up to the modal screen it opens.
Goal ==
    /\ pc = "goal"
    /\ IF player.score >= level_goals[lvl]
       THEN /\ level_scores' = record_score(level_scores, lvl, player)
            /\ total_time' = total_time + (now - start_time)
            /\ pc' = IF lvl < 3 THEN "level_trans" ELSE "victory"
       ELSE pc' = "scroll" /\ UNCHANGED <<level_scores, total_time>>
    /\ UNCHANGED <<lvl, player, plats, items, now, start_time,
                   held, nextId, budget, initials, highscore, board, arg, hist>>

\* level_trans returning True on ENTER, then lines 669-671.
LevelTransEnter ==
    /\ pc = "level_trans"
    /\ \E d \in InitDraws(lvl + 1) :
          LET g == init_game(lvl + 1, d)
          IN  /\ player' = g.player /\ plats' = g.plats /\ items' = g.items
              /\ nextId' = Len(g.plats) + 1
    /\ lvl' = lvl + 1
    /\ start_time' = now
    /\ hist' = [NoHist EXCEPT !.event = hist.event, !.jumps0 = hist.jumps0]
    /\ pc' = "scroll"
    /\ UNCHANGED <<level_scores, now, total_time, held, budget, initials,
                   highscore, board, arg>>

\* level_trans returning False on QUIT, then lines 667-668 and 791.
LevelTransQuit ==
    /\ pc = "level_trans"
    /\ pc' = "exit"
    /\ hist' = [hist EXCEPT !.event = "QUIT"]
    /\ UNCHANGED <<lvl, player, plats, items, level_scores, now, start_time,
                   total_time, held, nextId, budget, initials, highscore, board, arg>>

\* scroll_plat, were the centre of a level-3 circle left where it was.
scroll_plat_keeps_cy(pl, off, l) == [pl EXCEPT !.y = @ + off]

\* Lines 676-687.
scroll_plat(pl, off, l) ==
    IF l = 3 THEN [pl EXCEPT !.y = @ + off, !.cy = @ + off]
    ELSE [pl EXCEPT !.y = @ + off]

Scroll ==
    /\ pc = "scroll"
    /\ IF player.y < HEIGHT \div 3
       THEN LET off == HEIGHT \div 3 - player.y
            IN  /\ player' = [player EXCEPT !.y = @ + off]
                /\ plats' = [k \in 1..Len(plats) |-> scroll_plat(plats[k], off, lvl)]
       ELSE UNCHANGED <<player, plats>>
    /\ pc' = "cull"
    /\ UNCHANGED <<lvl, items, level_scores, now, start_time, total_time,
                   held, nextId, budget, initials, highscore, board, arg, hist>>

\* Lines 689-700.
on_screen(pl) == pl.y < HEIGHT

\* cull_plats, were the platforms past the bottom edge kept.
cull_plats_keeps_all(ps) == ps

cull_plats(ps) == SelectSeq(ps, on_screen)

cull_items(its, ps) == SelectSeq(its, LAMBDA it : has_plat(it, ps))

Cull ==
    /\ pc = "cull"
    /\ plats' = cull_plats(plats)
    /\ items' = cull_items(items, cull_plats(plats))
    /\ pc' = "gen"
    /\ UNCHANGED <<lvl, player, level_scores, now, start_time, total_time,
                   held, nextId, budget, initials, highscore, board, arg, hist>>

\* Lines 702-721.
top_y(ps) == CHOOSE y \in {ps[k].y : k \in 1..Len(ps)} :
                 \A k \in 1..Len(ps) : y <= ps[k].y

GenDraw(l, id) == PlatDraw(l, id, FALSE)

GenSpacing(l) == (IF l = 3 THEN 187 ELSE 150) * PX

generate(ps, its, l, id, spc, r) ==
    IF ps # <<>> /\ top_y(ps) > 0
    THEN LET new_plat == gen_platform(id, top_y(ps) - spc, r)
         IN  [plats |-> Append(ps, IF l = 3 THEN circular(new_plat, r) ELSE new_plat),
              items |-> its \o spawn_item(new_plat, r),
              nextId |-> id + 1]
    ELSE [plats |-> ps, items |-> its, nextId |-> id]

Generate ==
    /\ pc = "gen"
    /\ LET g == generate(plats, items, lvl, nextId, GenSpacing(lvl), GenDraw(lvl, nextId))
       IN  plats' = g.plats /\ items' = g.items /\ nextId' = g.nextId
    /\ pc' = "move"
    /\ UNCHANGED <<lvl, player, level_scores, now, start_time, total_time,
                   held, budget, initials, highscore, board, arg, hist>>

\* Lines 724-737: level 1, one platform; rr is the re-rolled slide or 0.
move1(pl, rr) ==
    LET s1 == IF pl.slide = 0 THEN SlideDraw(pl) ELSE pl.slide
        x1 == pl.x + s1
        s2 == IF rr # 0 THEN rr ELSE s1
        x2 == IF x1 < 0 THEN 0 ELSE x1
        s3 == IF x1 < 0 THEN Abs(s2) ELSE s2
        x3 == IF x2 + pl.w > WIDTH THEN WIDTH - pl.w ELSE x2
        s4 == IF x2 + pl.w > WIDTH THEN -Abs(s3) ELSE s3
    IN  [pl EXCEPT !.x = x3, !.slide = s4]

\* Lines 738-750: level 2, one platform; rx, ry are the re-rolled speeds or 0.
move2(pl, rx, ry) ==
    LET x1  == pl.x + pl.vx
        y1  == pl.y + pl.vy
        vx1 == IF rx # 0 THEN rx ELSE pl.vx
        vy1 == IF ry # 0 THEN ry ELSE pl.vy
        vx2 == IF x1 < 0 \/ x1 + pl.w > WIDTH THEN -vx1 ELSE vx1
        vy2 == IF y1 < 0 \/ y1 + pl.h > HEIGHT THEN -vy1 ELSE vy1
    IN  [pl EXCEPT !.x = x1, !.y = y1, !.vx = vx2, !.vy = vy2]

\* Lines 751-756: level 3, one platform.
move3(pl) ==
    [pl EXCEPT !.x = pl.cx + (pl.radius * cos1000(pl.angle)) \div 1000 - pl.w \div 2,
               !.y = pl.cy + (pl.radius * sin1000(pl.angle)) \div 1000 - pl.h \div 2,
               !.angle = pl.angle + pl.rot_speed]

move_plat(pl, k, l, rr) ==
    LET v == IF rr.k = k THEN rr.v ELSE 0
    IN  CASE l = 1 -> move1(pl, v)
          [] l = 2 -> move2(pl, IF rr.a = "x" THEN v ELSE 0, IF rr.a = "y" THEN v ELSE 0)
          [] OTHER -> move3(pl)

\* Lines 723-788: the platforms move, the frame is drawn and the clock ticks.
Move ==
    /\ pc = "move"
    /\ \E rr \in Rerolls :
          /\ plats' = [k \in 1..Len(plats) |-> move_plat(plats[k], k, lvl, rr)]
          /\ budget' = [budget EXCEPT !.rerolls = @ - (IF rr.k # 0 THEN 1 ELSE 0)]
    /\ hist' = hist_move(hist, plats, plats')
    /\ now' = now + FRAME_MS
    /\ pc' = "events"
    /\ UNCHANGED <<lvl, player, items, level_scores, start_time, total_time,
                   held, nextId, initials, highscore, board, arg>>

----------------------------------------------------------------------------
(* scoreboard.txt and highscore.txt.  A file is [exists, lines]; a line is  *)
(* the sequence of its whitespace-separated tokens, line.strip().split().   *)
(* A token is a rank ("3."), a name (any word that is no number), an        *)
(* integer literal, a decimal literal (its value in ms) or "nan".  A float  *)
(* is [nan, v]: v in ms, or the NaN that float("nan") returns.              *)

Tok(k, n, s) == [k |-> k, n |-> n, s |-> s]
RankTok(i)   == Tok("rank", i, <<>>)
NameTok(s)   == Tok("name", 0, s)
IntTok(n)    == Tok("int", n, <<>>)
DecTok(ms)   == Tok("dec", ms, <<>>)
NanTok       == Tok("nan", 0, <<>>)

Float(ms) == [nan |-> FALSE, v |-> ms]
NaN       == [nan |-> TRUE, v |-> 0]

\* str.endswith('.') on a token.
ends_with_dot(tok) == tok.k = "rank"

\* Whether int(tok) and float(tok) return rather than raise ValueError.
int_ok(tok)   == tok.k = "int"
float_ok(tok) == tok.k \in {"int", "dec", "nan"}

float_of(tok) ==
    CASE tok.k = "int" -> Float(tok.n * 1000)
      [] tok.k = "dec" -> Float(tok.n)
      [] OTHER         -> NaN

\* f"{t:.2f}": two decimals, so the value is rounded to 10 ms.
fmt_time(t) == IF t.nan THEN NanTok ELSE DecTok(((t.v + 5) \div 10) * 10)

\* Python's < on floats: every comparison with NaN is False.
float_lt(a, b) == ~a.nan /\ ~b.nan /\ a.v < b.v

\* Lines 443-445: the parts of a line, a leading rank dropped.
parts_of(line) ==
    IF line # <<>> /\ ends_with_dot(line[1]) THEN Tail(line) ELSE line

\* Lines 442-447 inside the try: the entries read before the first line that
\* raises, and none at all when the file cannot be opened.
RECURSIVE read_scores(_, _, _)
read_scores(lines, i, acc) ==
    IF i > Len(lines) THEN acc
    ELSE LET parts == parts_of(lines[i])
         IN  IF Len(parts) = 3
             THEN IF int_ok(parts[2]) /\ float_ok(parts[3])
                  THEN read_scores(lines, i + 1,
                           Append(acc, [name |-> parts[1], score |-> parts[2].n,
                                        time |-> float_of(parts[3])]))
                  ELSE acc
             ELSE read_scores(lines, i + 1, acc)

load_scores(file) == IF file.exists THEN read_scores(file.lines, 1, <<>>) ELSE <<>>

\* list.sort(key=...) as CPython sorts a list shorter than 64: each element
\* is paired with its key, the run at the front is found (and reversed when
\* strictly descending), and the rest is inserted by binary search.
key_lt(a, b) == float_lt(a.key, b.key)

RECURSIVE run_end(_, _, _)
run_end(s, k, desc) ==
    IF k < Len(s) /\ (key_lt(s[k + 1], s[k]) <=> desc)
    THEN run_end(s, k + 1, desc)
    ELSE k

reverse_front(s, k) ==
    [i \in 1..Len(s) |-> IF i <= k THEN s[k + 1 - i] ELSE s[i]]

RECURSIVE bisect(_, _, _, _)
bisect(s, pivot, l, r) ==
    IF l < r
    THEN LET p == l + (r - l) \div 2
         IN  IF key_lt(pivot, s[p]) THEN bisect(s, pivot, l, p)
             ELSE bisect(s, pivot, p + 1, r)
    ELSE l

insert_at(s, i, l) ==
    [j \in 1..Len(s) |->
        IF j < l \/ j > i THEN s[j] ELSE IF j = l THEN s[i] ELSE s[j - 1]]

RECURSIVE binarysort(_, _)
binarysort(s, i) ==
    IF i > Len(s) THEN s
    ELSE binarysort(insert_at(s, i, bisect(s, s[i], 1, i)), i + 1)

keyed_sort(s) ==
    IF Len(s) < 2 THEN s
    ELSE LET desc == key_lt(s[2], s[1])
             k    == run_end(s, 2, desc)
             t    == IF desc THEN reverse_front(s, k) ELSE s
         IN  binarysort(t, k + 1)

\* scores.sort(key=lambda x: x[2])
sort_by_time(scores) ==
    LET keyed  == [i \in 1..Len(scores) |-> [key |-> scores[i].time, val |-> scores[i]]]
        sorted == keyed_sort(keyed)
    IN  [i \in 1..Len(scores) |-> sorted[i].val]

\* scores.sort() on a list of floats
sort_floats(ts) ==
    LET keyed  == [i \in 1..Len(ts) |-> [key |-> ts[i], val |-> ts[i]]]
        sorted == keyed_sort(keyed)
    IN  [i \in 1..Len(ts) |-> sorted[i].val]

top10(s) == SubSeq(s, 1, Min(10, Len(s)))

\* Lines 455-457.
write_scores(scores) ==
    [exists |-> TRUE,
     lines  |-> [i \in 1..Len(scores) |->
                    <<RankTok(i), scores[i].name, IntTok(scores[i].score),
                      fmt_time(scores[i].time)>>]]

save_score(file, name, sc, ttime) ==
    LET scores == Append(load_scores(file),
                         [name |-> NameTok(name), score |-> sc, time |-> Float(ttime)])
    IN  write_scores(top10(sort_by_time(scores)))

\* check_top10, lines 459-479: the times read, or the fact that a line raised.
RECURSIVE read_times(_, _, _)
read_times(lines, i, acc) ==
    IF i > Len(lines) THEN [raised |-> FALSE, times |-> acc]
    ELSE LET parts == parts_of(lines[i])
         IN  IF Len(parts) = 3
             THEN IF float_ok(parts[3])
                  THEN read_times(lines, i + 1, Append(acc, float_of(parts[3])))
                  ELSE [raised |-> TRUE, times |-> acc]
             ELSE read_times(lines, i + 1, acc)

\* check_top10, were a tie with the worst of ten times to place.
check_top10_ties(file, ttime) ==
    IF ~file.exists THEN TRUE
    ELSE LET r == read_times(file.lines, 1, <<>>)
         IN  IF r.raised THEN TRUE
             ELSE IF Len(r.times) < 10 THEN TRUE
             ELSE ~float_lt(sort_floats(r.times)[Len(r.times)], Float(ttime))

\* check_top10, were a file that cannot be opened to count as a full board.
check_top10_needs_file(file, ttime) ==
    IF ~file.exists THEN FALSE
    ELSE LET r == read_times(file.lines, 1, <<>>)
         IN  IF r.raised THEN TRUE
             ELSE IF Len(r.times) < 10 THEN TRUE
             ELSE float_lt(Float(ttime), sort_floats(r.times)[Len(r.times)])

check_top10(file, ttime) ==
    IF ~file.exists THEN TRUE
    ELSE LET r == read_times(file.lines, 1, <<>>)
         IN  IF r.raised THEN TRUE
             ELSE IF Len(r.times) < 10 THEN TRUE
             ELSE LET sorted == sort_floats(r.times)
                  IN  float_lt(Float(ttime), sorted[Len(sorted)])

\* highscore.txt: [kind, v] with kind "missing", "int" (the integer v) or "junk".
read_highscore(f) == IF f.kind = "int" THEN f.v ELSE 0

\* game_over_file, were the file rewritten at every game-over.
game_over_always_writes(f, sc) == [kind |-> "int", v |-> sc]

\* game_over, lines 548-561: the file and level_scores afterwards.
game_over_file(f, sc) ==
    IF sc > read_highscore(f) THEN [kind |-> "int", v |-> sc] ELSE f

fill_scores(ls) == [i \in 1..3 |-> IF ls[i] = None THEN 0 ELSE ls[i]]

\* str.isalpha and str.upper on the one-character keys of the model;
\* "sharp_s" is the letter U+00DF, whose upper case is the two letters "SS".
isalpha(c) == c \in {"a", "B", "A", "sharp_s"}
upper(c)   == CASE c = "a" -> <<"A">>
                [] c = "sharp_s" -> <<"S", "S">>
                [] OTHER -> <<c>>

----------------------------------------------------------------------------
(* The end screens.                                                        *)

\* game_over(font, sc, needed, lvl) up to its timed display.
GameOver ==
    /\ pc = "game_over"
    /\ highscore' = game_over_file(highscore, player.score)
    /\ level_scores' = fill_scores(level_scores)
    /\ pc' = "display"
    /\ UNCHANGED <<lvl, player, plats, items, now, start_time, total_time,
                   held, nextId, budget, initials, board, arg, hist>>

\* victory, lines 508-511: the top-10 test.
Victory ==
    /\ pc = "victory"
    /\ pc' = IF check_top10(board, total_time) THEN "initials" ELSE "display"
    /\ initials' = <<>>
    /\ UNCHANGED <<lvl, player, plats, items, level_scores, now, start_time,
                   total_time, held, nextId, budget, highscore, board, arg, hist>>

InitialKeys == {"a", "B", "1", "sharp_s"}

\* victory, lines 526-540: one KEYDOWN of the initials prompt.
InitialsKey ==
    /\ pc = "initials"
    /\ \E key \in InitialKeys \cup {"BACKSPACE", "RETURN"} :
          IF key = "BACKSPACE"
          THEN /\ initials' = SubSeq(initials, 1, Len(initials) - 1)
               /\ pc' = pc /\ board' = board
          ELSE IF key = "RETURN" /\ Len(initials) = 3
          THEN /\ board' = save_score(board, initials, player.score, total_time)
               /\ pc' = "display" /\ initials' = initials
          ELSE /\ initials' = IF Len(initials) < 3 /\ key # "RETURN" /\ isalpha(key)
                              THEN initials \o upper(key) ELSE initials
               /\ pc' = pc /\ board' = board
    /\ UNCHANGED <<lvl, player, plats, items, level_scores, now, start_time,
                   total_time, held, nextId, budget, highscore, arg, hist>>

\* victory, lines 527-529: QUIT at the initials prompt.
InitialsQuit ==
    /\ pc = "initials"
    /\ pc' = "exit"
    /\ hist' = [hist EXCEPT !.event = "QUIT"]
    /\ UNCHANGED <<lvl, player, plats, items, level_scores, now, start_time,
                   total_time, held, nextId, budget, initials, highscore, board, arg>>

\* pygame.time.wait(5000) of game_over (line 587) and of show_scoreboard
\* (line 500): the window is closed while the display is shown.  The QUIT
\* event goes to the queue, which nothing reads any more.
DisplayClose ==
    /\ pc = "display"
    /\ hist.event # "QUIT"
    /\ hist' = [hist EXCEPT !.event = "QUIT"]
    /\ UNCHANGED <<pc, lvl, player, plats, items, level_scores, now, start_time,
                   total_time, held, nextId, budget, initials, highscore, board, arg>>

\* The wait is over: game_over or victory returns, main leaves the loop and
\* pygame.quit() runs (line 791).
DisplayEnd ==
    /\ pc = "display"
    /\ now' = now + DISPLAY_MS
    /\ pc' = "exit"
    /\ UNCHANGED <<lvl, player, plats, items, level_scores, start_time,
                   total_time, held, nextId, budget, initials, highscore, board, arg, hist>>

----------------------------------------------------------------------------
(* The program: main() from a fresh installation (no files yet), past the  *)
(* start screen.                                                           *)

NoFile == [exists |-> FALSE, lines |-> <<>>]

NoArg == [op |-> "none"]

Init ==
    /\ pc = "events"
    /\ lvl = 1
    /\ \E d \in InitDraws(1) :
          LET g == init_game(1, d)
          IN  /\ player = g.player /\ plats = g.plats /\ items = g.items
              /\ nextId = Len(g.plats) + 1
    /\ level_scores = <<None, None, None>>
    /\ now = 0
    /\ start_time = 0
    /\ total_time = 0
    /\ held = NoKeys
    /\ budget \in Budgets
    /\ initials = <<>>
    /\ highscore = [kind |-> "missing", v |-> 0]
    /\ board = NoFile
    /\ arg = NoArg
    /\ hist = NoHist

Next ==
    \/ Events \/ Quit \/ Update \/ Collect \/ Fall \/ Dead \/ Goal
    \/ LevelTransEnter \/ LevelTransQuit
    \/ Scroll \/ Cull \/ Generate \/ Move
    \/ GameOver \/ Victory \/ InitialsKey \/ InitialsQuit
    \/ DisplayClose \/ DisplayEnd

Spec == Init /\ [][Next]_vars

----------------------------------------------------------------------------
(* Properties of the main loop, checked under Spec.                        *)

goal_of(l) == level_goals[l]

\* Player.update's landing branch (lines 156-165) is taken on player p.
lands(p, ps) == can_land(resolve_hazard(tick_invul(integrate(p)), ps), ps)

\* The player is on top of the platform with identity id, at rest.
OnTop(id) ==
    \E k \in 1..Len(plats) :
        plats[k].id = id /\ player.y = plats[k].y - PlayerH /\ player.vy = 0

\* C1: within one uninterrupted overlap of the player with a hazardous
\* platform (the overlap found at the collision test of every consecutive
\* Player.update), Player.update takes at most one life, also when the
\* overlap outlasts the invulnerability window.
C1_OneLifePerOverlap ==
    \A id \in DOMAIN hist.contact : hist.contact[id] <= 1

\* C2 as stated: in Playing, a player whose y is past HEIGHT after the
\* physics step while the score is below the goal ends the game in that
\* frame (directly, or through the dead-player test that follows), whatever
\* the lives left.
C2_FallEndsGame ==
    [][(pc = "fall" /\ player.y > HEIGHT /\ player.score < goal_of(lvl))
          => (pc' = "game_over" \/ (pc' = "dead" /\ ~player'.alive))]_vars

\* C2 as amended: such a fall is a hit.  With more than one life the player
\* loses one, respawns at the start position with the invulnerability
\* window and the frame goes on to the goal test; only on the last life
\* (or with none left) does the frame end in GameOver.
C2_FallCostsALife ==
    [][/\ (pc = "fall" /\ player.y > HEIGHT /\ player.score < goal_of(lvl))
            => IF player.lives > 1
               THEN /\ pc' = "dead" /\ player'.alive
                    /\ player'.lives = player.lives - 1
                    /\ player'.x = player.start_x /\ player'.y = player.start_y
                    /\ player'.vy = 0 /\ player'.invul = INVUL_FRAMES
                    /\ level_scores' = level_scores
               ELSE pc' = "game_over" \/ (pc' = "dead" /\ ~player'.alive)
       /\ (pc = "dead" => pc' = IF player.alive THEN "goal" ELSE "game_over")]_vars

\* C2 witness: a fall has cost the second-to-last spare life: the player is
\* back with two lives and a fresh invulnerability window in a frame whose
\* Player.update met no hazard.
C2_Witness ==
    /\ pc = "dead" /\ player.alive /\ player.lives = 2
    /\ player.invul = INVUL_FRAMES /\ player.hit_recently
    /\ player.score < goal_of(lvl)
    /\ DOMAIN hist.contact = {}

\* C3: in a frame of Playing(lvl) in which the player is alive with the
\* score at the goal after item collection, the score is recorded in
\* level_scores and the frame leaves Playing(lvl): to the continue prompt
\* for levels 1 and 2 and from there, on ENTER, to Playing(lvl + 1) with a
\* new world; to Victory for level 3.  The level changes only on that path,
\* by one, and stays in 1..3.
C3_GoalCompletesLevel ==
    [][/\ (pc = "fall" /\ player.alive /\ player.score >= goal_of(lvl))
            => (pc' = "dead" /\ player'.alive /\ player'.score >= goal_of(lvl))
       /\ (pc = "dead" /\ player.alive /\ player.score >= goal_of(lvl))
            => pc' = "goal"
       /\ (pc = "goal" /\ player.score >= goal_of(lvl))
            => /\ level_scores'[lvl] = player.score
               /\ pc' = IF lvl < 3 THEN "level_trans" ELSE "victory"
       /\ (pc = "level_trans" /\ pc' # "exit")
            => /\ lvl' = lvl + 1 /\ pc' = "scroll"
               /\ player'.score = 0 /\ player'.lives = 3 /\ start_time' = now
       /\ (lvl' # lvl) => (pc = "level_trans" /\ lvl' = lvl + 1)
       /\ lvl \in 1..3 /\ lvl' \in 1..3]_vars

\* C4: a player with one life, not invulnerable and not flagged
\* hit_recently, who overlaps a hazardous platform in Player.update comes out
\* with no life, not alive and where the physics step put him (no respawn);
\* no Player.update follows, the frame ends in GameOver, and level_scores
\* holds the player's score when GameOver is entered.
C4_FatalHit ==
    [][/\ LET q == tick_invul(integrate(player))
          IN  (pc = "update" /\ player.lives = 1 /\ ~player.hit_recently
                  /\ q.invul = 0 /\ overlapped(q, plats) # {})
                 => /\ player'.lives = 0 /\ ~player'.alive
                    /\ player'.y = q.y /\ player'.vy = q.vy
                    /\ player'.x = (IF q.x < 0 THEN 0
                                    ELSE IF q.x + PlayerW > WIDTH THEN WIDTH - PlayerW
                                    ELSE q.x)
                    /\ player'.invul = 0
       /\ ~player.alive
            => /\ ~player'.alive
               /\ pc' # "update"
               /\ (pc = "collect" => pc' = "fall")
               /\ (pc = "fall" => pc' \in {"dead", "game_over"})
               /\ (pc = "dead" => pc' = "game_over")
       /\ (pc # "game_over" /\ pc' = "game_over")
            => level_scores'[lvl] = player'.score]_vars

\* C4 witness: Player.update has just taken the last life on a hazard.
C4_Witness ==
    /\ pc = "collect" /\ ~player.alive /\ player.lives = 0
    /\ \E id \in DOMAIN hist.contact : hist.contact[id] >= 1

\* C5: the jump count is 0, 1 or 2.  A jump at count 0 sets vy to -JUMP and
\* the count to 1 (and ends the easy-gravity phase); at count 1 it sets vy
\* to -DJUMP and the count to 2; at count 2 it changes neither vy nor the
\* count nor the initial flag; and it never moves the player.
C5_Jump ==
    [][/\ player.jumps \in 0..2 /\ player'.jumps \in 0..2
       /\ (pc = "events" /\ pc' = "update" /\ hist'.event = "UP")
            => /\ CASE player.jumps = 0 ->
                         /\ player'.vy = -JUMP /\ player'.jumps = 1
                         /\ ~player'.initial
                    [] player.jumps = 1 ->
                         /\ player'.vy = -DJUMP /\ player'.jumps = 2
                         /\ player'.initial = player.initial
                    [] OTHER ->
                         /\ player'.vy = player.vy /\ player'.jumps = player.jumps
                         /\ player'.initial = player.initial
               /\ player'.y = player.y
               /\ player'.x = player.x + (IF held'.right THEN MOVE_SPEED ELSE 0)
                                       - (IF held'.left THEN MOVE_SPEED ELSE 0)]_vars

\* C5 witness: UP has been pressed with both jumps used.
C5_Witness ==
    pc = "update" /\ hist.event = "UP" /\ hist.jumps0 = 2 /\ player.jumps = 2

\* C6 as stated: within a level the jump count goes from non-zero to 0 only
\* in a Player.update that lands the player on a non-hazard platform.
C6_ResetOnlyByLanding ==
    [][(player.jumps # 0 /\ player'.jumps = 0 /\ lvl' = lvl)
          => (pc = "update" /\ lands(player, plats))]_vars

\* C6 as amended: within a level the jump count goes from non-zero to 0 only
\* in a Player.update that lands the player on a non-hazard platform, or in
\* a hit that costs a life without ending the game (Player.hit's respawn,
\* called by Player.update on a hazard or by the main loop on a fall below
\* the screen); the event loop, item collection, scroll, culling,
\* generation and platform motion never reset it.
C6_ResetByLandingOrHit ==
    [][(player.jumps # 0 /\ player'.jumps = 0 /\ lvl' = lvl)
          => \/ pc = "update" /\ lands(player, plats)
             \/ pc \in {"update", "fall"} /\ player'.lives = player.lives - 1
                                          /\ player'.alive]_vars

\* C6 witness: a player who has jumped is about to be landed by Player.update.
C6_Witness ==
    pc = "update" /\ player.jumps # 0 /\ lands(player, plats)

\* C7 as stated: a player who stood at rest on a non-hazard platform and has
\* had no jump and no left/right input since is on top of that platform
\* (y = platform.y - h, vy = 0) at the end of every later frame of the level.
C7_StaysOnPlatform ==
    (pc = "events" /\ hist.rest # 0) => OnTop(hist.rest)

\* C7 as amended: the same holds for as long as the platform's own motion
\* has not changed its height, the platform is still under the player (and
\* the first safe platform at his feet) when Player.update runs, and the
\* player has not been hit.
C7_StaysWhilePlatformStays ==
    (pc = "events" /\ hist.rest # 0 /\ hist.still) => OnTop(hist.rest)

\* C7 witness: three frames without input have ended with the platform
\* still under the player.
C7_Witness ==
    /\ pc = "events" /\ hist.rest # 0 /\ hist.still
    /\ now >= hist.since + 3 * FRAME_MS

\* C8: within a level the score never decreases, whatever the frame holds
\* (hits, respawns, the skip key); it is 0 again exactly when a level is
\* entered with a new Player.
C8_ScoreMonotonic ==
    [][/\ (lvl' = lvl) => player'.score >= player.score
       /\ (lvl' # lvl) => (player'.score = 0 /\ pc = "level_trans")]_vars

\* C8 witness: a player who has scored has since been hit and respawned with
\* the score kept.
C8_Witness ==
    player.score > 0 /\ player.lives < 3 /\ player.alive

----------------------------------------------------------------------------
(* Player.collect on its own: a player at a fixed place, a list of items   *)
(* around him drawn anew for every call, and the clock advancing between   *)
(* the calls.                                                              *)

MaxCalls == 2   \* calls of Player.collect in one run
MaxItems == 2   \* items in the list handed to one call

\* The platform the items are bound to, and the player beside it.
CollectPlat == Platform(1, 0, 400 * PX, 120 * PX)

CollectPlayer == NewPlayer(100 * PX, 300 * PX)

\* A plain item well inside the player's rectangle, a special one that
\* overlaps it by a hundredth of a pixel, and a special one that touches its
\* right edge without overlapping.
ItemChoices ==
    {[Item(CollectPlayer.x + c.dx, CollectPlayer.y + 10 * PX, CollectPlat)
         EXCEPT !.special = c.sp] :
        c \in {[dx |-> 10 * PX, sp |-> FALSE], [dx |-> PlayerW - 1, sp |-> TRUE],
                [dx |-> PlayerW, sp |-> TRUE]}}

ItemLists ==
    UNION {[1..n -> ItemChoices] : n \in 0..MaxItems}

\* The clock between two calls: the same tick, the next frame, one frame
\* before a double-score window set at the last call runs out, and its end.
ClockSteps == {0, FRAME_MS, DOUBLE_MS - FRAME_MS, DOUBLE_MS}

InitCollect ==
    /\ pc = "collect"
    /\ lvl = 1
    /\ player = CollectPlayer
    /\ plats = <<CollectPlat>>
    /\ items = <<>>
    /\ level_scores = <<None, None, None>>
    /\ now = 0
    /\ start_time = 0
    /\ total_time = 0
    /\ held = NoKeys
    /\ nextId = 2
    /\ budget = [keys |-> 0, moves |-> 0, rerolls |-> 0]
    /\ initials = <<>>
    /\ highscore = [kind |-> "missing", v |-> 0]
    /\ board = NoFile
    /\ arg = [op |-> "none", calls |-> 0]
    /\ hist = NoHist

\* player.collect(items, plats, now), on a list drawn for the call.
CollectCall ==
    /\ pc = "collect"
    /\ arg.calls < MaxCalls
    /\ \E its \in ItemLists, dt \in ClockSteps :
          LET c == collect(player, its, plats, now + dt)
          IN  /\ player' = c.player
              /\ items' = c.items
              /\ now' = now + dt
              /\ arg' = [op |-> "collect", calls |-> arg.calls + 1,
                         player |-> player, items |-> its, t |-> now + dt]
    /\ UNCHANGED <<pc, lvl, plats, level_scores, start_time, total_time, held,
                   nextId, budget, initials, highscore, board, hist>>

SpecCollect == InitCollect /\ [][CollectCall]_vars

RECURSIVE SumOver(_, _)
SumOver(f, S) ==
    IF S = {} THEN 0
    ELSE LET i == CHOOSE j \in S : TRUE IN f[i] + SumOver(f, S \ {i})

\* C9: Player.collect at time t removes every item that overlaps the player
\* and no other; each removed item adds 2 to the score when t is before the
\* end of the double-score window and 1 otherwise, a special item first
\* setting that end to exactly t + 5000 ms (so it awards 2 itself and so do
\* the items after it in the call); a call at or after the end awards 1;
\* without a special item the window is left as it is, and nothing else of
\* the player changes.
C9_Collect ==
    arg.op = "collect" =>
        LET p0   == arg.player
            its  == arg.items
            t    == arg.t
            hit_ == {i \in 1..Len(its) : item_overlap(p0, its[i], plats)}
            spec == {i \in hit_ : its[i].special}
            pts  == [i \in hit_ |->
                        IF t < p0.double_end \/ \E j \in spec : j <= i THEN 2 ELSE 1]
        IN  /\ items = SelectSeq(its, LAMBDA it : ~item_overlap(p0, it, plats))
            /\ player.score = p0.score + SumOver(pts, hit_)
            /\ player.double_end = IF spec # {} THEN t + DOUBLE_MS ELSE p0.double_end
            /\ player = [p0 EXCEPT !.score = player.score,
                                   !.double_end = player.double_end]

\* C9 witness: a call at the very end of a double-score window set by an
\* earlier special item collected one plain item for one point.
C9_Witness ==
    /\ arg.op = "collect"
    /\ arg.player.double_end > 0 /\ arg.t = arg.player.double_end
    /\ Len(arg.items) = 1 /\ ~arg.items[1].special /\ items = <<>>
    /\ player.score = arg.player.score + 1

----------------------------------------------------------------------------
(* save_score on its own: scoreboard.txt in any of a set of prior states   *)
(* (missing, empty, well-formed, over-long, with lines that are not        *)
(* entries), and a bounded number of saves one after the other.            *)

MaxSaves == 2   \* calls of save_score in one run
MaxLines == 3   \* lines of a short prior file

\* The lines a prior file is made of, by kind, as line number i: an entry
\* with a time of 1 s, 5 s or 5.004 s, an entry whose time field reads
\* "nan", an entry without its rank, a line whose score is not a number, a
\* line of two fields, and an empty line.
LineKinds == {"t1", "t5", "t5004", "nan", "norank", "badscore", "short", "blank"}

line_of(kind, i) ==
    CASE kind = "t1"       -> <<RankTok(i), NameTok(<<"A", "A", "A">>), IntTok(25), DecTok(1000)>>
      [] kind = "t5"       -> <<RankTok(i), NameTok(<<"B", "B", "B">>), IntTok(25), DecTok(5000)>>
      [] kind = "t5004"    -> <<RankTok(i), NameTok(<<"C", "C", "C">>), IntTok(25), DecTok(5004)>>
      [] kind = "nan"      -> <<RankTok(i), NameTok(<<"D", "D", "D">>), IntTok(25), NanTok>>
      [] kind = "norank"   -> <<NameTok(<<"E", "E", "E">>), IntTok(25), IntTok(7)>>
      [] kind = "badscore" -> <<RankTok(i), NameTok(<<"F", "F", "F">>), NameTok(<<"x">>), DecTok(2000)>>
      [] kind = "short"    -> <<RankTok(i), NameTok(<<"G", "G", "G">>)>>
      [] OTHER             -> <<>>

file_of(kinds) ==
    [exists |-> TRUE, lines |-> [i \in 1..Len(kinds) |-> line_of(kinds[i], i)]]

\* A file as save_score leaves it: n entries, entry i with a time of i s.
ranked_file(n) ==
    [exists |-> TRUE,
     lines  |-> [i \in 1..n |->
                    <<RankTok(i), NameTok(<<"A", "A", "A">>), IntTok(25), DecTok(i * 1000)>>]]

PriorFiles ==
    {NoFile}
    \cup {file_of(ks) : ks \in UNION {[1..n -> LineKinds] : n \in 0..MaxLines}}
    \cup {ranked_file(n) : n \in 9..11}
    \cup {[ranked_file(n) EXCEPT !.lines = Append(@, line_of(k, n + 1))] :
             n \in 9..10, k \in {"nan", "badscore"}}

SaveNames == {<<"Z", "Z", "Z">>}

SaveTimes == {500, 3004, 10000, 20000}

InitBoard ==
    /\ pc = "save"
    /\ lvl = 3
    /\ player = NewPlayer(0, 0)
    /\ plats = <<>>
    /\ items = <<>>
    /\ level_scores = <<10, 15, 25>>
    /\ now = 0
    /\ start_time = 0
    /\ total_time = 0
    /\ held = NoKeys
    /\ nextId = 1
    /\ budget = [keys |-> 0, moves |-> 0, rerolls |-> 0]
    /\ initials = <<>>
    /\ highscore = [kind |-> "missing", v |-> 0]
    /\ board \in PriorFiles
    /\ arg = [op |-> "none", calls |-> 0]
    /\ hist = NoHist

\* save_score(name, sc, total_time)
SaveScore ==
    /\ pc = "save"
    /\ arg.calls < MaxSaves
    /\ \E name \in SaveNames, t \in SaveTimes :
          /\ board' = save_score(board, name, 25, t)
          /\ arg' = [op |-> "save_score", calls |-> arg.calls + 1,
                     file |-> board, name |-> name, score |-> 25, time |-> t,
                     result |-> TRUE]
    /\ UNCHANGED <<pc, lvl, player, plats, items, level_scores, now, start_time,
                   total_time, held, nextId, budget, initials, highscore, hist>>

\* check_top10(total_time), once on each state of the file.
CheckTop10 ==
    /\ pc = "save"
    /\ arg.op # "check_top10"
    /\ \E t \in SaveTimes :
          arg' = [op |-> "check_top10", calls |-> arg.calls,
                  file |-> board, name |-> <<>>, score |-> 0, time |-> t,
                  result |-> check_top10(board, t)]
    /\ UNCHANGED <<pc, lvl, player, plats, items, level_scores, now, start_time,
                   total_time, held, nextId, budget, initials, highscore, board, hist>>

SpecBoard == InitBoard /\ [][SaveScore \/ CheckTop10]_vars

\* Python's <= on floats.
float_le(a, b) == ~a.nan /\ ~b.nan /\ a.v <= b.v

\* C10: after any call of save_score, whatever the file held before
\* (missing, empty, well-formed, over-long, with malformed lines),
\* scoreboard.txt has at least 1 and at most 10 lines, ranked 1..n in
\* order, with time fields that do not decrease down the file.
C10_BoardRankedAndSorted ==
    arg.op = "save_score" =>
        /\ board.exists
        /\ Len(board.lines) \in 1..10
        /\ \A i \in 1..Len(board.lines) :
              Len(board.lines[i]) = 4 /\ board.lines[i][1] = RankTok(i)
        /\ \A i \in 1..(Len(board.lines) - 1) :
              float_le(float_of(board.lines[i][4]), float_of(board.lines[i + 1][4]))

\* The entries a reader that skips just the malformed lines finds in a file:
\* the numbers of the lines of three fields, rank aside, whose score is an
\* integer and whose time is a number.
well_formed(file) ==
    {i \in 1..Len(file.lines) :
        LET parts == parts_of(file.lines[i])
        IN  Len(parts) = 3 /\ int_ok(parts[2]) /\ float_ok(parts[3])}

\* The time of well-formed line i.
time_at(file, i) == float_of(parts_of(file.lines[i])[3])

\* Line i of the prior file is an entry of the file as written.
kept_in(file, i, out) ==
    LET parts == parts_of(file.lines[i])
    IN  \E j \in 1..Len(out.lines) :
            /\ out.lines[j][2] = parts[1]
            /\ out.lines[j][3] = IntTok(parts[2].n)
            /\ out.lines[j][4] = fmt_time(float_of(parts[3]))

\* C11: save_score skips only the malformed lines of the file: every
\* well-formed entry, before or after a malformed line, that is among the
\* best 10 by time (fewer than 10 of the other well-formed entries and the
\* new one have a time that is not greater) is in the rewritten file.
C11_OnlyMalformedSkipped ==
    arg.op = "save_score" =>
        \A i \in well_formed(arg.file) :
            LET t      == time_at(arg.file, i)
                others == {k \in well_formed(arg.file) \ {i} :
                              ~float_lt(t, time_at(arg.file, k))}
                new    == IF float_lt(t, Float(arg.time)) THEN 0 ELSE 1
            IN  (~t.nan /\ Cardinality(others) + new < 10)
                    => kept_in(arg.file, i, board)

\* C12: with scoreboard.txt absent check_top10 returns True whatever the
\* time, and save_score writes exactly one line: rank 1, the initials, the
\* score, and the time to two decimals.
C12_AbsentFile ==
    (arg.op # "none" /\ ~arg.file.exists) =>
        /\ arg.op = "check_top10" => (arg.result /\ board = arg.file)
        /\ arg.op = "save_score" =>
              /\ board.exists /\ Len(board.lines) = 1
              /\ Len(board.lines[1]) = 4
              /\ board.lines[1][1] = RankTok(1)
              /\ board.lines[1][2] = NameTok(arg.name)
              /\ board.lines[1][3] = IntTok(arg.score)
              /\ board.lines[1][4].k = "dec"
              /\ board.lines[1][4].n % 10 = 0
              /\ board.lines[1][4].n - arg.time \in -5..5

\* C12 witness: the first save of a run went into a missing file.
C12_Witness ==
    /\ arg.op = "save_score" /\ ~arg.file.exists /\ arg.calls = 1
    /\ Len(board.lines) = 1

\* A leaderboard file of at most 10 lines, each an entry with a finite time,
\* none of them under the initials nm.
board_ok(file, nm) ==
    /\ file.exists /\ Len(file.lines) <= 10
    /\ well_formed(file) = 1..Len(file.lines)
    /\ \A i \in 1..Len(file.lines) :
          ~time_at(file, i).nan /\ parts_of(file.lines[i])[1] # NameTok(nm)

\* The file out holds an entry under the initials nm.
placed(out, nm) == \E j \in 1..Len(out.lines) : out.lines[j][2] = NameTok(nm)

\* C26: on a well-formed leaderboard file of at most 10 entries,
\* check_top10(t) is true exactly when save_score(initials, score, t) leaves
\* the new entry in the rewritten file, which is exactly when the file has
\* fewer than 10 entries or t is strictly below one of the stored times (a
\* tie with the worst of 10 does not place).
C26_CheckAgreesWithSave ==
    (arg.op = "save_score" /\ board_ok(arg.file, arg.name)) =>
        LET better == \/ Len(arg.file.lines) < 10
                      \/ \E i \in 1..Len(arg.file.lines) :
                            arg.time < time_at(arg.file, i).v
        IN  /\ check_top10(arg.file, arg.time) <=> placed(board, arg.name)
            /\ placed(board, arg.name) <=> better

\* C26 witness: a time equal to the worst of 10 stored times was saved and
\* is not in the file.
C26_Witness ==
    /\ arg.op = "save_score" /\ board_ok(arg.file, arg.name)
    /\ Len(arg.file.lines) = 10
    /\ \E i \in 1..10 : time_at(arg.file, i).v = arg.time
    /\ \A i \in 1..10 : time_at(arg.file, i).v <= arg.time
    /\ ~placed(board, arg.name)
    /\ ~check_top10(arg.file, arg.time)

----------------------------------------------------------------------------
(* Further properties of the main loop, checked under Spec.                *)

\* The start platform of the level (init_game's plats[0]) in the list ps.
start_plat(ps) == ps[index_of(1, ps)]

\* A step of the frame loop in which Player.hit took a life and respawned.
respawned == lvl' = lvl /\ player'.lives < player.lives /\ player'.alive

\* C13 as stated: after a non-fatal hit the player is back on the start
\* platform of the level: the start platform is there, the player's
\* rectangle overlaps it horizontally with its bottom edge at the platform's
\* top, vy is 0, the jump count is 0 and 30 frames of invulnerability run.
C13_RespawnOnStartPlatform ==
    [][respawned =>
          /\ present(1, plats')
          /\ above(player', start_plat(plats'))
          /\ player'.y + PlayerH = start_plat(plats').y
          /\ player'.vy = 0 /\ player'.jumps = 0
          /\ player'.invul = INVUL_FRAMES]_vars

\* C13 amended: a non-fatal hit puts the player at the coordinates recorded
\* at level entry (start_x, start_y), which no step within a level changes,
\* with vy 0, jump count 0 and 30 frames of invulnerability; a hit inside
\* Player.update may still be followed by a landing of the same update on a
\* safe platform found at that place.
C13_RespawnAtStartPoint ==
    [][/\ lvl' = lvl => /\ player'.start_x = player.start_x
                        /\ player'.start_y = player.start_y
       /\ respawned =>
             /\ player'.x = player.start_x
             /\ player'.vy = 0 /\ player'.jumps = 0
             /\ player'.invul = INVUL_FRAMES
             /\ \/ player'.y = player.start_y
                \/ /\ pc = "update"
                   /\ \E k \in 1..Len(plats) : standing(player', plats[k])]_vars

\* C13 witness: a fall has put the player back at the start point after the
\* start platform had left it: nothing of the start platform is under the
\* player.
C13_Witness ==
    /\ pc = "dead" /\ player.alive /\ player.hit_recently
    /\ player.invul = INVUL_FRAMES /\ player.vy = 0 /\ player.jumps = 0
    /\ player.x = player.start_x /\ player.y = player.start_y
    /\ \A k \in 1..Len(plats) : plats[k].id = 1 => ~above(player, plats[k])

\* C14: in levels 2 and 3 the start platform has no motion profile: while it
\* is in the list its vx and vy are 0, it is on no circular path, and its
\* position changes by the scroll offset of the scroll step only, so that
\* it stays under the spawn point until the world scrolls.
C14_StartPlatformStill ==
    [][(lvl \in {2, 3} /\ lvl' = lvl /\ present(1, plats) /\ present(1, plats')) =>
          LET a == start_plat(plats)
              b == start_plat(plats')
          IN  /\ b.vx = 0 /\ b.vy = 0 /\ b.radius = 0
              /\ b.x = a.x
              /\ IF pc = "scroll"
                 THEN b.y - a.y = player'.y - player.y
                 ELSE b.y = a.y]_vars

----------------------------------------------------------------------------
(* The frame loop late in a climb.  The world has scrolled by ClimbOffset   *)
(* since level entry: the platforms of init_game have come down by that     *)
(* much, those past the bottom edge are gone, and the highest one is about  *)
(* to pass y = 0.  The player, risen to the scroll line in the frame        *)
(* before, has just used the double jump.  The clock of the model is read   *)
(* from this frame on.                                                      *)

ClimbOffset == 470 * PX   \* the scroll offsets of the climb so far, summed

climbed(g, l) ==
    LET ps == cull_plats([k \in 1..Len(g.plats) |-> scroll_plat(g.plats[k], ClimbOffset, l)])
    IN  [plats |-> [k \in 1..Len(ps) |-> move_plat(ps[k], k, l, NoReroll)],
         items |-> cull_items(g.items, ps)]

InitClimb ==
    /\ pc = "update"
    /\ lvl \in 1..3
    /\ \E d \in InitDraws(lvl) :
          LET g == init_game(lvl, d)
              c == climbed(g, lvl)
          IN  /\ player = [g.player EXCEPT !.y = HEIGHT \div 3, !.vy = -DJUMP,
                                           !.jumps = 2, !.initial = FALSE]
              /\ plats = c.plats /\ items = c.items
              /\ nextId = Len(g.plats) + 1
    /\ level_scores = <<None, None, None>>
    /\ now = 0
    /\ start_time = 0
    /\ total_time = 0
    /\ held = NoKeys
    /\ budget \in Budgets
    /\ initials = <<>>
    /\ highscore = [kind |-> "missing", v |-> 0]
    /\ board = NoFile
    /\ arg = NoArg
    /\ hist = [NoHist EXCEPT !.event = "UP", !.jumps0 = 1, !.ascents = 2]

SpecClimb == InitClimb /\ [][Next]_vars

\* The platforms that a step appended to the list.
appended == SubSeq(plats', Len(plats) + 1, Len(plats'))

Speeds == {k * PX : k \in {-3, -2, -1, 1, 2, 3}}

\* C15: the generation step of a frame appends at most one platform, and
\* only when the highest platform's y is above 0; no other step of a level
\* adds a platform; in level 2 the new platform has vx and vy from
\* {-3..-1, 1..3} from its creation, in level 3 it has a circular profile
\* whose centre y is its spawn y.
C15_GeneratedPlatformsMove ==
    [][lvl' = lvl =>
          /\ Len(plats') <= Len(plats) + (IF pc = "gen" THEN 1 ELSE 0)
          /\ Len(plats') > Len(plats) =>
                /\ plats # <<>> /\ top_y(plats) > 0
                /\ SubSeq(plats', 1, Len(plats)) = plats
                /\ lvl = 2 => appended[1].vx \in Speeds /\ appended[1].vy \in Speeds
                /\ lvl = 3 => /\ appended[1].cy = appended[1].y
                              /\ appended[1].radius > 0
                              /\ appended[1].rot_speed > 0]_vars

\* C16: while the player rises (vy < 0) on the first jump after level entry,
\* the gravity that Player.update applies is EASYGRAV (damped to 60 %).
C16_EasyGravOnFirstAscent ==
    [][(pc = "update" /\ hist.ascents = 1 /\ player.vy < 0
            /\ player'.lives = player.lives) =>
          /\ gravity(player) = EASYGRAV
          /\ player'.vy \in {0, player.vy + (EASYGRAV * 6) \div 10}]_vars

\* C17: in the scroll step of a frame with player.y < HEIGHT/3, the player
\* and every platform (in level 3 also the centre cy of its circle) move
\* down by off = HEIGHT/3 - player.y, nothing else of them changes, the
\* player ends at y = HEIGHT/3, every vertical distance between the player
\* and a platform is kept, and every item moves by off with the platform it
\* is bound to; with player.y >= HEIGHT/3 the step changes nothing.
C17_Scroll ==
    [][pc = "scroll" =>
          IF player.y < HEIGHT \div 3
          THEN LET off == HEIGHT \div 3 - player.y
               IN  /\ player' = [player EXCEPT !.y = HEIGHT \div 3]
                   /\ Len(plats') = Len(plats)
                   /\ \A k \in 1..Len(plats) :
                         /\ plats'[k] = [plats[k] EXCEPT
                                            !.y = plats[k].y + off,
                                            !.cy = IF lvl = 3 THEN plats[k].cy + off
                                                   ELSE plats[k].cy]
                         /\ plats'[k].y - player'.y = plats[k].y - player.y
                   /\ items' = items
                   /\ \A i \in 1..Len(items) :
                         /\ get_y(items[i], plats') = get_y(items[i], plats) + off
                         /\ get_x(items[i], plats') = get_x(items[i], plats)
          ELSE player' = player /\ plats' = plats /\ items' = items]_vars

\* C17 witness: in level 3 the scroll step has put a rising player on the
\* line y = HEIGHT/3: the circle of the first generated platform, centred
\* at its spawn y (at most HEIGHT - 180) by init_game, has its centre below
\* that, and there are items in the world.
C17_Witness ==
    /\ pc = "cull" /\ lvl = 3
    /\ player.y = HEIGHT \div 3 /\ player.vy < 0
    /\ \E k \in 1..Len(plats) :
          plats[k].id = 2 /\ plats[k].radius > 0 /\ plats[k].cy > HEIGHT - 180 * PX
    /\ items # <<>>

\* No platform of ps is at or below the bottom edge, and every item of its is
\* bound to a platform of ps.
culled(ps, its) ==
    /\ \A k \in 1..Len(ps) : ps[k].y < HEIGHT
    /\ \A i \in 1..Len(its) : \E k \in 1..Len(ps) : ps[k].id = its[i].plat

\* C18: after the cull step of a frame, after the generation step that
\* follows it, and after init_game (at the start of the program and at every
\* level entry), no platform of the list has y >= HEIGHT and every item is
\* bound to a platform of the list.
C18_CulledWorld ==
    /\ (pc = "events" /\ now = 0) => culled(plats, items)
    /\ [][(pc \in {"cull", "gen"} \/ lvl' # lvl) => culled(plats', items')]_vars

\* C18 witness: late in a climb of level 1 or 2 the platform with identity 6,
\* which init_game made with an item, is gone with its item, and the last
\* platform of the list is one that a generation step added.
C18_Witness ==
    /\ pc = "move" /\ lvl \in {1, 2}
    /\ ~present(6, plats)
    /\ \A i \in 1..Len(items) : items[i].plat # 6
    /\ nextId >= 10 /\ plats # <<>> /\ plats[Len(plats)].id = nextId - 1
    /\ culled(plats, items)

\* The state of the program apart from its position: what a step must leave
\* alone to count as no state transition.
program_state ==
    <<lvl, player, plats, items, level_scores, now, start_time, total_time,
      held, nextId, initials, highscore, board>>

\* C19: a window-close event that arrives while the program is in a blocking
\* wait (the frame loop, the level-continue prompt, the initials prompt, the
\* timed game-over and scoreboard displays) ends the program in that very
\* step, with no other change of state and without the display time passing.
C19_QuitHonoured ==
    [][(hist'.event = "QUIT" /\ hist.event # "QUIT") =>
          (pc' = "exit" /\ UNCHANGED program_state)]_vars

\* The letters that str.upper gives on the keys of the model.
UpperLetters == {"A", "B", "S"}

\* C20: at Victory the leaderboard file is written only by save_score at the
\* initials prompt, reached only when check_top10(total_time) was true, and
\* only with initials of exactly 3 upper-case letters; the buffer of the
\* prompt never holds more than 3 characters; when check_top10 is false the
\* prompt is skipped and the file is unchanged.
C20_SaveOnlyQualified ==
    [][/\ pc' = "initials" => Len(initials') <= 3
       /\ (pc = "victory" /\ ~check_top10(board, total_time)) =>
             (pc' # "initials" /\ board' = board)
       /\ board' # board =>
             /\ pc = "initials" /\ check_top10(board, total_time)
             /\ Len(initials) = 3
             /\ \A i \in 1..Len(initials) : initials[i] \in UpperLetters
             /\ board' = save_score(board, initials, player.score, total_time)]_vars

\* C22: in a frame of a level in which the invulnerability timer is positive
\* (in Player.update: still positive after the decrement of that frame) no
\* step of the main loop takes a life: neither the hazard test of
\* Player.update nor the test for a fall below the screen.
C22_NoLossWhileInvulnerable ==
    [][(lvl' = lvl /\ (IF pc = "update" THEN player.invul > 1 ELSE player.invul > 0)) =>
          player'.lives >= player.lives]_vars

\* The player as the landing test of the Player.update about to run finds
\* it: integrated, the timer ticked, the hazard test done.
at_landing_test == resolve_hazard(tick_invul(integrate(player)), plats)

\* The platforms that the landing test accepts for the player q.
fits(q) ==
    {k \in 1..Len(plats) :
        /\ ~plats[k].hazard
        /\ q.y + PlayerH >= plats[k].y /\ q.y + PlayerH <= plats[k].y + plats[k].h
        /\ q.x + PlayerW > plats[k].x /\ q.x < plats[k].x + plats[k].w}

\* C24: Player.update lands the player exactly when, at its landing test
\* (after the integration and the hazard test), the player is alive, vy >= 0
\* and a non-hazard platform has the player's bottom edge in [p.y, p.y + p.h]
\* and overlaps it horizontally; the landing, on the first such platform of
\* the list, sets y = p.y - player.h, vy = 0, jump count 0 and initial
\* false and nothing else; an update with no landing and no hit leaves the
\* jump count and the initial flag as they were.
C24_Landing ==
    [][pc = "update" =>
          LET q == at_landing_test
          IN  IF q.alive /\ q.vy >= 0 /\ fits(q) # {}
              THEN \E k \in fits(q) :
                      /\ \A j \in fits(q) : k <= j
                      /\ player' = clamp([q EXCEPT !.y = plats[k].y - PlayerH, !.vy = 0,
                                                   !.jumps = 0, !.initial = FALSE])
              ELSE /\ player' = clamp(q)
                   /\ player'.lives = player.lives =>
                         /\ player'.jumps = player.jumps
                         /\ player'.initial = player.initial]_vars

\* C24 witness: a fall of at least 5 px a frame has just ended in a landing
\* on a platform other than the start platform, with no hit in that update.
C24_Witness ==
    /\ pc = "collect" /\ hist.speed >= 5 * PX /\ ~player.hit_recently
    /\ player.vy = 0 /\ player.jumps = 0 /\ ~player.initial
    /\ \E k \in 1..Len(plats) : plats[k].id # 1 /\ standing(player, plats[k])

\* C25: in level 2 a platform that ends a motion step with x < 0 has a
\* positive vx at the end of that step, one that ends it with x + w > WIDTH
\* a negative vx, and every platform's x is within [-3, WIDTH - w + 3] after
\* every motion step.
C25_EdgeBounce ==
    [][(pc = "move" /\ lvl = 2) =>
          \A k \in 1..Len(plats') :
              LET pl == plats'[k]
              IN  /\ pl.x < 0 => pl.vx > 0
                  /\ pl.x + pl.w > WIDTH => pl.vx < 0
                  /\ pl.x >= -3 * PX /\ pl.x <= WIDTH - pl.w + 3 * PX]_vars

\* C27: lives is in 0..3, alive holds exactly when lives > 0, and a frame
\* has taken at most one life since its event loop, in every state; within a
\* level no step raises lives, and a step that raises it enters the next
\* level with 3 lives.
C27_Lives ==
    /\ [](/\ player.lives \in 0..3
          /\ player.alive <=> player.lives > 0
          /\ hist.lives0 - player.lives \in {0, 1})
    /\ [][/\ lvl' = lvl => player'.lives <= player.lives
          /\ player'.lives > player.lives =>
                (lvl' = lvl + 1 /\ pc = "level_trans" /\ player'.lives = 3)]_vars

\* C27 witness: in level 3 the frame that began with the last life has taken
\* it in its test for a fall below the screen.
C27_Witness ==
    /\ pc = "dead" /\ lvl = 3
    /\ hist.lives0 = 1 /\ player.lives = 0 /\ ~player.alive
    /\ player.y > HEIGHT

----------------------------------------------------------------------------
(* game_over's high-score file on its own: successive game-overs, each of   *)
(* one run of the program, on whatever highscore.txt held before.           *)

MaxGames == 3   \* game-overs in a row

\* highscore.txt before the first game-over: missing, not an integer, or an
\* integer that int() reads (a negative one too).
PriorHigh ==
    {[kind |-> "missing", v |-> 0], [kind |-> "junk", v |-> 0]}
    \cup {[kind |-> "int", v |-> v] : v \in {-3, 0, 5, 20, 30}}

FinalScores == {0, 3, 5, 12, 25, 40}

InitHigh ==
    /\ pc = "game_over"
    /\ lvl = 1
    /\ player = NewPlayer(0, 0)
    /\ plats = <<>>
    /\ items = <<>>
    /\ level_scores = <<None, None, None>>
    /\ now = 0
    /\ start_time = 0
    /\ total_time = 0
    /\ held = NoKeys
    /\ nextId = 1
    /\ budget = [keys |-> 0, moves |-> 0, rerolls |-> 0]
    /\ initials = <<>>
    /\ highscore \in PriorHigh
    /\ board = NoFile
    /\ arg = [op |-> "none", calls |-> 0]
    /\ hist = NoHist

\* game_over(font, sc, needed, lvl), lines 548-557.
GameOverCall ==
    /\ pc = "game_over"
    /\ arg.calls < MaxGames
    /\ \E sc \in FinalScores :
          /\ highscore' = game_over_file(highscore, sc)
          /\ arg' = [op |-> "game_over", calls |-> arg.calls + 1,
                     file |-> highscore, score |-> sc]
    /\ UNCHANGED <<pc, lvl, player, plats, items, level_scores, now, start_time,
                   total_time, held, nextId, budget, initials, board, hist>>

SpecHigh == InitHigh /\ [][GameOverCall]_vars

\* The value that a high-score file stands for: its integer, or 0.
stored(f) == IF f.kind = "int" THEN f.v ELSE 0

\* C21: after game_over(score) the high-score file stands for
\* max(previous, score), previous being the integer stored before or 0 for a
\* missing or unparseable file; the file is rewritten only when
\* score > previous, and over a readable file the stored value never goes
\* down.
C21_HighScoreIsMax ==
    arg.op = "game_over" =>
        LET previous == stored(arg.file)
        IN  /\ stored(highscore) = (IF arg.score > previous THEN arg.score ELSE previous)
            /\ highscore # arg.file => arg.score > previous
            /\ arg.score > previous => highscore = [kind |-> "int", v |-> arg.score]
            /\ arg.file.kind = "int" =>
                  (highscore.kind = "int" /\ highscore.v >= arg.file.v)

\* C21 witness: a later game-over of the row, with a score below the stored
\* integer, has left the file as it was.
C21_Witness ==
    /\ arg.op = "game_over" /\ arg.calls >= 2
    /\ arg.file.kind = "int" /\ arg.score < arg.file.v /\ arg.score > 0
    /\ highscore = arg.file

----------------------------------------------------------------------------
(* Player.update on a falling player just above a safe platform.  The fall  *)
(* speeds are those of play: a fall starts with vy = 0 at or below the      *)
(* scroll line y = HEIGHT/3 and gains GRAV a frame, so that a player at y   *)
(* falls at most at the speed of a free fall from that line; the platform   *)
(* tops go down to the bottom edge and the few pixels that a platform may   *)
(* move past it between its cull and the next update.  A second safe        *)
(* platform may lie under the player within a platform's height of the      *)
(* first, as moving platforms of levels 2 and 3 do.                         *)

\* vy and y of a fall of play.
fall_of_play(p) == p.vy >= 0 /\ p.vy * p.vy <= 100 * (p.y - HEIGHT \div 3)

LandTops == {300 * PX, 450 * PX, 590 * PX, 603 * PX}

\* By how much the bottom edge is above the platform's top before the update.
LandGaps == {0, 50, 7 * PX, 15 * PX, 1940}

FallSpeeds == {50 * n : n \in 0..39}

\* The top of the second platform relative to the first; 0 is no second one.
SecondTops == {0, -10 * PX, 10 * PX}

InitLand ==
    /\ pc = "update"
    /\ lvl = 2
    /\ \E top \in LandTops, gap \in LandGaps, v \in FallSpeeds, e \in SecondTops :
          LET p    == [NewPlayer(300 * PX, top - PlayerH - gap) EXCEPT
                          !.vy = v, !.jumps = 1, !.initial = FALSE]
              pl   == Platform(1, 280 * PX, top, 100 * PX)
              snd  == Platform(2, 320 * PX, top + e, 60 * PX)
          IN  /\ fall_of_play(p)
              /\ player = p
              /\ plats = IF e = 0 THEN <<pl>> ELSE <<snd, pl>>
    /\ items = <<>>
    /\ level_scores = <<10, None, None>>
    /\ now = 0
    /\ start_time = 0
    /\ total_time = 0
    /\ held = NoKeys
    /\ nextId = 3
    /\ budget = [keys |-> 0, moves |-> 0, rerolls |-> 0]
    /\ initials = <<>>
    /\ highscore = [kind |-> "missing", v |-> 0]
    /\ board = NoFile
    /\ arg = NoArg
    /\ hist = NoHist

SpecLand == InitLand /\ [][Update]_vars

\* In the Player.update about to run, the integration takes the bottom edge
\* of the player from at or above the top of the safe platform pl to below
\* it, the player being over pl horizontally.
crosses(p, pl) ==
    /\ ~pl.hazard /\ p.alive
    /\ p.y + PlayerH <= pl.y
    /\ integrate(p).y + PlayerH > pl.y
    /\ above(integrate(p), pl)

\* C23 as stated: a Player.update in which the falling player's bottom edge
\* crosses the top of a safe platform under it, and which takes no life,
\* ends with the player landed on that platform: bottom edge at its top,
\* vy = 0.
C23_LandsOnIt ==
    [][(pc = "update" /\ player'.lives = player.lives) =>
          \A k \in 1..Len(plats) :
              crosses(player, plats[k]) =>
                  (player'.vy = 0 /\ player'.y = plats[k].y - PlayerH)]_vars

\* C23 amended: such an update ends with the player landed (vy = 0, bottom
\* edge at the top) on a safe platform under it whose top is within one
\* platform height of the top that was crossed: that platform itself, unless
\* another one comes first in the list.
C23_NoTunnelling ==
    [][(pc = "update" /\ player'.lives = player.lives) =>
          \A k \in 1..Len(plats) :
              crosses(player, plats[k]) =>
                  /\ player'.vy = 0
                  /\ \E j \in 1..Len(plats) :
                        /\ ~plats[j].hazard /\ above(player', plats[j])
                        /\ player'.y = plats[j].y - PlayerH
                        /\ Abs(plats[j].y - plats[k].y) <= PlatH]_vars

\* C23 witness: a fall of at least 15 px a frame has ended on a platform.
C23_Witness ==
    /\ pc = "collect" /\ hist.speed >= 15 * PX
    /\ player.vy = 0 /\ player.jumps = 0
    /\ \E k \in 1..Len(plats) : standing(player, plats[k])

====
